---- MODULE Spec2Model ----
(***************************************************************************)
(* A model of virtual_drumkit.py: the VirtualDrumkit engine (per-finger    *)
(* motion history, direction classification, down-latch, cooldown, skill   *)
(* gate, mode thresholds) and the two ways it is driven: the script        *)
(* main() (configure once, then the frame loop) and the object's public    *)
(* operations called in any order.                                         *)
(*                                                                         *)
(* Units.  The source's floats are kept on fixed-point grids:              *)
(*   positions and thresholds in 1e-4 of the normalized image height       *)
(*     (down_threshold 0.002 is 20, 0.0008 is 8);                          *)
(*   times in 1e-2 s (cooldown 0.15 is 15, hand_cooldown 0.2 is 20).       *)
(* avg_motion = sum(motions) / len(motions) is compared with a threshold   *)
(* by cross-multiplication, sum(motions) > threshold * len(motions),       *)
(* which is the same comparison in exact arithmetic (len(motions) > 0).    *)
(*                                                                         *)
(* Rounding.  The source computes in IEEE doubles.  Where the two sides    *)
(* of a comparison differ on the grid the doubles agree with the exact     *)
(* arithmetic; where they are equal on the grid the doubles come out       *)
(* either way (1.15 - 1.0 < 0.15 but not 1.3 - 1.15 < 0.15; the average    *)
(* of 0.009 and -0.005 exceeds 0.002).  The outcome of such a comparison   *)
(* is read from self.rounding, which a call of process_frame takes as      *)
(* any of its possible values: one for each channel and history, since     *)
(* the same history on the grid is held as different doubles by channels   *)
(* sampled against different wrist heights.                                *)
(*                                                                         *)
(* Not modelled: drawing (cv2.putText, cv2.circle, tip_pos), the volume    *)
(* field and its sliders, pattern_history and pattern_window (never read). *)
(***************************************************************************)
EXTENDS Integers, Sequences, FiniteSets, TLC

VARIABLES
    current_mode,            \* self.current_mode
    skill_level,             \* self.skill_level
    last_hand_trigger_time,  \* self.last_hand_trigger_time
    hand_cooldown,           \* self.hand_cooldown
    down_threshold,          \* self.down_threshold
    up_threshold,            \* self.up_threshold
    finger_sounds,           \* self.finger_sounds: key -> FingerSound
    clock,                   \* the last value time.time() returned
    pc,                      \* position in main(): "mode", "skill", "enable", "loop"; "api" and "gate" outside main()
    raised,                  \* process_frame raised an exception (the frame loop is over)
    played,                  \* keys on which sound.play() was called in the last frame, in call order
    frames,                  \* number of process_frame calls so far
    fire_times,              \* observer: key -> the frame timestamps at which its sound was played
    edge_log,                \* observer: key -> its Armed-to-Latched transitions, in order
    run_fires,               \* observer: key -> its firings since its last frame classified Up
    samples,                 \* observer: key -> every relative_y appended to its history, in order
    last_profile,            \* observer: the most recently selected mode that has a profile
    mode_set_at,             \* observer: value of frames when the mode was last selected
    config_ops               \* number of mode, skill and enable operations so far

vars == <<current_mode, skill_level, last_hand_trigger_time, hand_cooldown,
          down_threshold, up_threshold, finger_sounds, clock, pc, raised,
          played, frames, fire_times, edge_log, run_fires, samples, last_profile,
          mode_set_at, config_ops>>

----------------------------------------------------------------------------
\* Bounds of the model

\* process_frame calls in one run of the object harness
MaxFrames == 2
\* process_frame calls in one run of main()'s loop
MaxLoopFrames == 5
\* process_frame calls in the loop of main()'s first run
MaxFirstRunFrames == 6
\* mode, skill and enable operations in one run of the object harness
MaxConfigOps == 2
\* process_frame calls in the loop of main() after any sidebar choice
MaxSessionFrames == 4
\* process_frame calls in the loop of main() on finely spaced fingertips
MaxFineFrames == 4
\* process_frame calls in one run of the skill-level harness
MaxGateFrames == 4
\* changes of the skill level in one run of the skill-level harness
MaxGateOps == 3
\* the first reading of time.time(), in 1e-2 s (any value past the cooldown)
StartTime == 100

----------------------------------------------------------------------------
\* The catalog and the tables of __init__

Mode == {"Training", "Practice", "Performance", "Expert", "Custom"}

Sides == {"LEFT", "RIGHT"}

\* finger_indices, in the dict's insertion order
FingerOrder == <<"THUMB", "INDEX", "MIDDLE", "RING", "PINKY">>

Fingers == {FingerOrder[i] : i \in 1..Len(FingerOrder)}

finger_indices ==
    [f \in Fingers |->
        CASE f = "THUMB" -> 4
          [] f = "INDEX" -> 8
          [] f = "MIDDLE" -> 12
          [] f = "RING" -> 16
          [] f = "PINKY" -> 20]

\* f"{hand_side}_{finger_name}"
finger_key(hand_side, finger_name) == <<hand_side, finger_name>>

Keys == {finger_key(s, f) : s \in Sides, f \in Fingers}

\* Mutant: Tom Low (LEFT_THUMB) entered at skill level 1
catalog_skill_level_tom_low_1 ==
    [k \in Keys |->
        CASE k \in {<<"RIGHT", "INDEX">>, <<"RIGHT", "MIDDLE">>,
                    <<"RIGHT", "THUMB">>, <<"LEFT", "THUMB">>} -> 1
          [] k \in {<<"RIGHT", "RING">>, <<"RIGHT", "PINKY">>,
                    <<"LEFT", "INDEX">>} -> 2
          [] OTHER -> 3]

\* FingerSound(..., skill_level=n) of the catalog
catalog_skill_level ==
    [k \in Keys |->
        CASE k = <<"RIGHT", "INDEX">> -> 1
          [] k = <<"RIGHT", "MIDDLE">> -> 1
          [] k = <<"RIGHT", "THUMB">> -> 1
          [] k = <<"RIGHT", "RING">> -> 2
          [] k = <<"RIGHT", "PINKY">> -> 2
          [] k = <<"LEFT", "INDEX">> -> 2
          [] k = <<"LEFT", "THUMB">> -> 3
          [] k = <<"LEFT", "MIDDLE">> -> 3
          [] k = <<"LEFT", "RING">> -> 3
          [] k = <<"LEFT", "PINKY">> -> 3]

\* FingerSound.cooldown: float = 0.15
cooldown == 15

history_size == 4

\* self.hand_cooldown = 0.1, before update_mode_parameters overwrites it
initial_hand_cooldown == 10

\* the slider's range of skill levels
SkillLevels == 1..3

mode_parameters ==
    [m \in Mode \ {"Custom"} |->
        CASE m = "Training" ->
                [down_threshold |-> 20, up_threshold |-> 10, hand_cooldown |-> 20]
          [] m = "Practice" ->
                [down_threshold |-> 15, up_threshold |-> 10, hand_cooldown |-> 15]
          [] m = "Performance" ->
                [down_threshold |-> 10, up_threshold |-> 8, hand_cooldown |-> 10]
          [] m = "Expert" ->
                [down_threshold |-> 8, up_threshold |-> 5, hand_cooldown |-> 5]]

\* A FingerSound as the dataclass and __post_init__ build it; sound is
\* whether a pygame Sound was loaded (None otherwise).
FingerSound(skill, loaded) ==
    [sound |-> loaded,
     last_trigger_time |-> 0,
     cooldown |-> cooldown,
     last_positions |-> <<>>,
     is_moving_down |-> FALSE,
     is_active |-> TRUE,
     skill_level |-> skill]

\* How the comparisons of doubles come out when their two sides are equal
\* on the grid:
\*   down  - the histories whose average the doubles put above the
\*           down-threshold (avg_motion > self.down_threshold is True),
\*           each with its channel where process_frame reads it, by
\*           itself where a detector does (see OfChannel);
\*   up    - those whose average they put below minus the up-threshold
\*           (avg_motion < -self.up_threshold is True);
\*   early - whether they put the elapsed time below the cooldown
\*           (current_time - sound.last_trigger_time < sound.cooldown
\*           is True).
\* Exact is the outcome of the comparisons in exact arithmetic.
Exact == [down |-> {}, up |-> {}, early |-> FALSE]

\* The object as the methods read it
Self ==
    [rounding |-> Exact,
     current_mode |-> current_mode,
     skill_level |-> skill_level,
     last_hand_trigger_time |-> last_hand_trigger_time,
     hand_cooldown |-> hand_cooldown,
     down_threshold |-> down_threshold,
     up_threshold |-> up_threshold,
     finger_sounds |-> finger_sounds]

----------------------------------------------------------------------------
\* Pure helpers

RECURSIVE SumSeq(_)
SumSeq(s) == IF s = <<>> THEN 0 ELSE Head(s) + SumSeq(Tail(s))

\* [positions[i] - positions[i - 1] for i in range(1, len(positions))]
Motions(positions) ==
    [i \in 1..(Len(positions) - 1) |-> positions[i + 1] - positions[i]]

\* Mutant: the sum of the motions is compared, not their average
detect_downward_motion_by_sum(self, positions) ==
    IF Len(positions) < 2
    THEN FALSE
    ELSE LET motions == Motions(positions)
         IN \/ SumSeq(motions) > self.down_threshold
            \/ /\ SumSeq(motions) = self.down_threshold
               /\ positions \in self.rounding.down

\* Mutant: a single sample counts as a motion away from the wrist's height
detect_downward_motion_from_rest(self, positions) ==
    IF Len(positions) < 1
    THEN FALSE
    ELSE IF Len(positions) = 1
    THEN positions[1] > self.down_threshold
    ELSE LET motions == Motions(positions)
         IN \/ SumSeq(motions) > self.down_threshold * Len(motions)
            \/ /\ SumSeq(motions) = self.down_threshold * Len(motions)
               /\ positions \in self.rounding.down

\* avg_motion > self.down_threshold; at equality on the grid, as the
\* doubles round
detect_downward_motion(self, positions) ==
    IF Len(positions) < 2
    THEN FALSE
    ELSE LET motions == Motions(positions)
         IN \/ SumSeq(motions) > self.down_threshold * Len(motions)
            \/ /\ SumSeq(motions) = self.down_threshold * Len(motions)
               /\ positions \in self.rounding.down

\* avg_motion < -self.up_threshold; at equality on the grid, as the
\* doubles round
detect_upward_motion(self, positions) ==
    IF Len(positions) < 2
    THEN FALSE
    ELSE LET motions == Motions(positions)
         IN \/ SumSeq(motions) < (0 - self.up_threshold) * Len(motions)
            \/ /\ SumSeq(motions) = (0 - self.up_threshold) * Len(motions)
               /\ positions \in self.rounding.up

\* current_time - sound.last_trigger_time < sound.cooldown; at equality
\* on the grid, as the doubles round
InCooldown(self, sound, current_time) ==
    \/ current_time - sound.last_trigger_time < sound.cooldown
    \/ /\ current_time - sound.last_trigger_time = sound.cooldown
       /\ self.rounding.early

\* Mutant: the hand's cooldown is consulted as well
can_trigger_sound_hand_cooldown(self, hand_side, sound, current_time) ==
    IF sound.skill_level > self.skill_level
    THEN FALSE
    ELSE IF InCooldown(self, sound, current_time)
    THEN FALSE
    ELSE IF current_time - self.last_hand_trigger_time[hand_side]
               < self.hand_cooldown
    THEN FALSE
    ELSE TRUE

\* Mutant: the cooldown is never consulted
can_trigger_sound_no_cooldown(self, hand_side, sound, current_time) ==
    IF sound.skill_level > self.skill_level
    THEN FALSE
    ELSE TRUE

\* Mutant: the cooldown lasts twice as long
can_trigger_sound_double_cooldown(self, hand_side, sound, current_time) ==
    IF sound.skill_level > self.skill_level
    THEN FALSE
    ELSE IF current_time - sound.last_trigger_time < 2 * sound.cooldown
    THEN FALSE
    ELSE TRUE

can_trigger_sound(self, hand_side, sound, current_time) ==
    IF sound.skill_level > self.skill_level
    THEN FALSE
    ELSE IF InCooldown(self, sound, current_time)
    THEN FALSE
    ELSE TRUE

\* Mutant: past history_size the newest sample is dropped (pop())
PushPosition_evicts_newest(last_positions, relative_y) ==
    LET appended == Append(last_positions, relative_y)
    IN IF Len(appended) > history_size
       THEN SubSeq(appended, 1, history_size)
       ELSE appended

\* sound.last_positions.append(relative_y), then pop(0) past history_size
PushPosition(last_positions, relative_y) ==
    LET appended == Append(last_positions, relative_y)
    IN IF Len(appended) > history_size THEN Tail(appended) ELSE appended

\* The object as the detectors read it when they classify the history of
\* this channel: a frame's rounding names the comparisons of equal sides
\* by channel and history (two channels can hold the same history on the
\* grid as different doubles, tip.y - wrist_y being rounded for each
\* hand), a detector's by history
OfChannel(self, key) ==
    [self EXCEPT
        !.rounding =
            [down |-> {e[2] : e \in {x \in @.down : x[1] = key}},
             up |-> {e[2] : e \in {x \in @.up : x[1] = key}},
             early |-> @.early]]

\* Mutant: a mode without a profile falls back to Training's
update_mode_parameters_fallback(self) ==
    LET params == IF self.current_mode \in DOMAIN mode_parameters
                  THEN mode_parameters[self.current_mode]
                  ELSE mode_parameters["Training"]
    IN [self EXCEPT !.down_threshold = params.down_threshold,
                    !.up_threshold = params.up_threshold,
                    !.hand_cooldown = params.hand_cooldown]

\* update_mode_parameters: a mode without a profile changes nothing
update_mode_parameters(self) ==
    IF self.current_mode \in DOMAIN mode_parameters
    THEN LET params == mode_parameters[self.current_mode]
         IN [self EXCEPT !.down_threshold = params.down_threshold,
                         !.up_threshold = params.up_threshold,
                         !.hand_cooldown = params.hand_cooldown]
    ELSE self

----------------------------------------------------------------------------
\* process_frame, lines 224-258.  A hand is the sequence of its landmarks'
\* y coordinates: landmark[i].y of the source is landmark[i + 1] here, and
\* an index past the end raises IndexError.  st is what the loop has done
\* so far: the channels, the sounds played, the samples appended (for the
\* observer: key, relative_y, is_moving_down and is_moving_up of each
\* append), and whether it has raised.

\* Mutant: the enabled flag is not consulted
Plays_ignoring_is_active(self, hand_side, sound, current_time, is_moving_down) ==
    /\ is_moving_down /\ ~sound.is_moving_down
    /\ can_trigger_sound(self, hand_side, sound, current_time)
    /\ sound.sound

\* Lines 250-253: the sound is played on a Down edge that passes
\* can_trigger_sound, when a sound is loaded and the channel is enabled
Plays(self, hand_side, sound, current_time, is_moving_down) ==
    /\ is_moving_down /\ ~sound.is_moving_down
    /\ can_trigger_sound(self, hand_side, sound, current_time)
    /\ sound.sound
    /\ sound.is_active

\* Mutant: any frame that is not moving down releases the latch
LatchAfter_release_on_neutral(sound, is_moving_down, is_moving_up) ==
    IF is_moving_down /\ ~sound.is_moving_down
    THEN TRUE
    ELSE IF ~is_moving_down
    THEN FALSE
    ELSE sound.is_moving_down

\* Mutant: the latch is set only inside the innermost test, where the
\* sound is played
LatchAfter_only_with_sound(sound, is_moving_down, is_moving_up) ==
    IF is_moving_down /\ ~sound.is_moving_down
    THEN sound.sound /\ sound.is_active
    ELSE IF is_moving_up
    THEN FALSE
    ELSE sound.is_moving_down

\* Mutant: upward motion does not release the latch
LatchAfter_never_released(sound, is_moving_down, is_moving_up) ==
    IF is_moving_down /\ ~sound.is_moving_down
    THEN TRUE
    ELSE sound.is_moving_down

\* Mutant: upward motion flips the latch, setting it on an Armed channel
LatchAfter_up_toggles(sound, is_moving_down, is_moving_up) ==
    IF is_moving_down /\ ~sound.is_moving_down
    THEN TRUE
    ELSE IF is_moving_up
    THEN ~sound.is_moving_down
    ELSE sound.is_moving_down

\* Lines 250-258: sound.is_moving_down after the frame
LatchAfter(sound, is_moving_down, is_moving_up) ==
    IF is_moving_down /\ ~sound.is_moving_down
    THEN TRUE
    ELSE IF is_moving_up
    THEN FALSE
    ELSE sound.is_moving_down

\* Mutant: a channel above the skill level is sampled and latched like
\* the others (the test of line 234 is left to can_trigger_sound)
ProcessFinger_samples_gated(self, st, hand_side, landmark, wrist_y, finger_name, current_time) ==
    LET key == finger_key(hand_side, finger_name)
        sound == st.finger_sounds[key]
        tip_idx == finger_indices[finger_name]
    IN IF tip_idx >= Len(landmark)
       THEN [st EXCEPT !.raised = TRUE]
       ELSE
         LET relative_y == landmark[tip_idx + 1] - wrist_y
             positions == PushPosition(sound.last_positions, relative_y)
             is_moving_down == detect_downward_motion(OfChannel(self, key), positions)
             is_moving_up == detect_upward_motion(OfChannel(self, key), positions)
             plays == Plays(self, hand_side, sound, current_time, is_moving_down)
             after ==
                [sound EXCEPT
                    !.last_positions = positions,
                    !.last_trigger_time = IF plays THEN current_time ELSE @,
                    !.is_moving_down = LatchAfter(sound, is_moving_down, is_moving_up)]
         IN [st EXCEPT !.finger_sounds[key] = after,
                       !.played = IF plays THEN Append(@, key) ELSE @,
                       !.pushed = Append(@, <<key, relative_y,
                                               is_moving_down, is_moving_up>>)]

\* Mutant: the last-fire time is stamped on every Down edge that passes
\* can_trigger_sound, whether or not the sound is played
ProcessFinger_stamps_every_edge(self, st, hand_side, landmark, wrist_y, finger_name, current_time) ==
    LET key == finger_key(hand_side, finger_name)
        sound == st.finger_sounds[key]
        tip_idx == finger_indices[finger_name]
    IN IF sound.skill_level > self.skill_level
       THEN st
       ELSE IF tip_idx >= Len(landmark)
       THEN [st EXCEPT !.raised = TRUE]
       ELSE
         LET relative_y == landmark[tip_idx + 1] - wrist_y
             positions == PushPosition(sound.last_positions, relative_y)
             is_moving_down == detect_downward_motion(OfChannel(self, key), positions)
             is_moving_up == detect_upward_motion(OfChannel(self, key), positions)
             plays == Plays(self, hand_side, sound, current_time, is_moving_down)
             stamps == /\ is_moving_down /\ ~sound.is_moving_down
                       /\ can_trigger_sound(self, hand_side, sound, current_time)
             after ==
                [sound EXCEPT
                    !.last_positions = positions,
                    !.last_trigger_time = IF stamps THEN current_time ELSE @,
                    !.is_moving_down = LatchAfter(sound, is_moving_down, is_moving_up)]
         IN [st EXCEPT !.finger_sounds[key] = after,
                       !.played = IF plays THEN Append(@, key) ELSE @,
                       !.pushed = Append(@, <<key, relative_y,
                                               is_moving_down, is_moving_up>>)]

ProcessFinger(self, st, hand_side, landmark, wrist_y, finger_name, current_time) ==
    LET key == finger_key(hand_side, finger_name)
        sound == st.finger_sounds[key]
        tip_idx == finger_indices[finger_name]
    IN IF sound.skill_level > self.skill_level
       THEN st
       ELSE IF tip_idx >= Len(landmark)
       THEN [st EXCEPT !.raised = TRUE]
       ELSE
         LET relative_y == landmark[tip_idx + 1] - wrist_y
             positions == PushPosition(sound.last_positions, relative_y)
             is_moving_down == detect_downward_motion(OfChannel(self, key), positions)
             is_moving_up == detect_upward_motion(OfChannel(self, key), positions)
             plays == Plays(self, hand_side, sound, current_time, is_moving_down)
             after ==
                [sound EXCEPT
                    !.last_positions = positions,
                    !.last_trigger_time = IF plays THEN current_time ELSE @,
                    !.is_moving_down = LatchAfter(sound, is_moving_down, is_moving_up)]
         IN [st EXCEPT !.finger_sounds[key] = after,
                       !.played = IF plays THEN Append(@, key) ELSE @,
                       !.pushed = Append(@, <<key, relative_y,
                                               is_moving_down, is_moving_up>>)]

\* Mutant: the loop over the fingers ends at a channel within the skill
\* level that has no sound
RECURSIVE ProcessFingers_ends_at_silent(_, _, _, _, _, _, _)
ProcessFingers_ends_at_silent(self, st, hand_side, landmark, wrist_y, i, current_time) ==
    IF i > Len(FingerOrder) \/ st.raised
    THEN st
    ELSE LET sound == st.finger_sounds[finger_key(hand_side, FingerOrder[i])]
         IN IF sound.skill_level <= self.skill_level /\ ~sound.sound
            THEN st
            ELSE ProcessFingers_ends_at_silent(
                    self,
                    ProcessFinger(self, st, hand_side, landmark, wrist_y,
                                  FingerOrder[i], current_time),
                    hand_side, landmark, wrist_y, i + 1, current_time)

\* for finger_name, tip_idx in self.finger_indices.items(), from the i-th on
RECURSIVE ProcessFingers(_, _, _, _, _, _, _)
ProcessFingers(self, st, hand_side, landmark, wrist_y, i, current_time) ==
    IF i > Len(FingerOrder) \/ st.raised
    THEN st
    ELSE ProcessFingers(
            self,
            ProcessFinger(self, st, hand_side, landmark, wrist_y,
                          FingerOrder[i], current_time),
            hand_side, landmark, wrist_y, i + 1, current_time)

\* Mutant: the first detected hand is the right one
HandSide_first_is_right(hand_idx) == IF hand_idx = 0 THEN "RIGHT" ELSE "LEFT"

\* hand_side = "LEFT" if hand_idx == 0 else "RIGHT"
HandSide(hand_idx) == IF hand_idx = 0 THEN "LEFT" ELSE "RIGHT"

\* One iteration of the loop over results.multi_hand_landmarks
ProcessHand(self, st, hand_idx, landmark, current_time) ==
    IF Len(landmark) = 0
    THEN [st EXCEPT !.raised = TRUE]
    ELSE ProcessFingers(self, st, HandSide(hand_idx), landmark, landmark[1],
                        1, current_time)

\* for hand_idx, hand_landmarks in enumerate(...), from hand_idx on
RECURSIVE ProcessHands(_, _, _, _, _)
ProcessHands(self, st, hands, hand_idx, current_time) ==
    IF hand_idx >= Len(hands) \/ st.raised
    THEN st
    ELSE ProcessHands(
            self,
            ProcessHand(self, st, hand_idx, hands[hand_idx + 1], current_time),
            hands, hand_idx + 1, current_time)

process_frame(self, hands, current_time) ==
    ProcessHands(self,
                 [finger_sounds |-> self.finger_sounds,
                  played |-> <<>>,
                  pushed |-> <<>>,
                  raised |-> FALSE],
                 hands, 0, current_time)

SeqSet(s) == {s[i] : i \in 1..Len(s)}

\* The object on a machine whose doubles round as given
Rounded(self, rounding) == [self EXCEPT !.rounding = rounding]

\* The relative_y values appended to a channel's history, in order
PushedTo(key, pushed) ==
    LET IsKey(e) == e[1] = key
        mine == SelectSeq(pushed, IsKey)
    IN [i \in 1..Len(mine) |-> mine[i][2]]

\* The history of a channel after each of these appends, in order
RECURSIVE HistoriesAfter(_, _)
HistoriesAfter(last_positions, values) ==
    IF values = <<>>
    THEN {}
    ELSE LET positions == PushPosition(last_positions, Head(values))
         IN {positions} \cup HistoriesAfter(positions, Tail(values))

\* The ways the comparisons of a call of process_frame can come out, given
\* what the call does in exact arithmetic: the channels it samples and
\* the histories it classifies do not depend on the rounding, so the
\* comparisons that meet equality are those of each sampled channel's
\* history after each append and of the sampled channels' elapsed times.
\* A tied history is rounded for each channel by itself.  The elapsed
\* times that tie in one call are differences of the same two doubles
\* (the time of this frame and of the one frame a cooldown before it).
RoundingsOf(self, base, current_time) ==
    LET sampled == {base.pushed[i][1] : i \in 1..Len(base.pushed)}
        classified ==
            UNION {{<<k, positions>> :
                        positions \in HistoriesAfter(
                                        self.finger_sounds[k].last_positions,
                                        PushedTo(k, base.pushed))} :
                   k \in sampled}
        long == {e \in classified : Len(e[2]) >= 2}
        downs == {e \in long :
                    SumSeq(Motions(e[2]))
                      = self.down_threshold * (Len(e[2]) - 1)}
        ups == {e \in long :
                    SumSeq(Motions(e[2]))
                      = (0 - self.up_threshold) * (Len(e[2]) - 1)}
        earlies == IF \E k \in sampled :
                        current_time - self.finger_sounds[k].last_trigger_time
                          = self.finger_sounds[k].cooldown
                   THEN BOOLEAN ELSE {FALSE}
    IN [down : SUBSET downs, up : SUBSET ups, early : earlies]

\* The ways the comparisons of process_frame on this frame can come out
FrameRoundings(self, hands, current_time) ==
    RoundingsOf(self,
                process_frame(Rounded(self, Exact), hands, current_time),
                current_time)

\* The outcomes of process_frame on the machines there can be
process_frame_outcomes(self, hands, current_time) ==
    LET base == process_frame(Rounded(self, Exact), hands, current_time)
    IN {IF rounding = Exact THEN base
        ELSE process_frame(Rounded(self, rounding), hands, current_time) :
            rounding \in RoundingsOf(self, base, current_time)}

\* The channel's sample was classified as upward motion
ClassifiedUp(key, pushed) ==
    \E i \in 1..Len(pushed) : pushed[i][1] = key /\ pushed[i][4]

----------------------------------------------------------------------------
\* Inputs

\* Sound files that may be absent when __init__ looks for them
MissingChoices == {{}, {<<"RIGHT", "INDEX">>}, {<<"LEFT", "INDEX">>}}

\* Channels whose checkbox the user may change
CheckboxKeys == {<<"RIGHT", "THUMB">>, <<"LEFT", "INDEX">>}

\* Time (1e-2 s) between two readings of time.time() in main()'s loop
FrameDts == {5, 10}

\* The same for the object harness
HarnessDts == {10}

\* A detected hand with all 21 landmarks: the wrist at y = wrist,
\* every fingertip at y = tip, the other landmarks at the wrist's height
Hand(wrist, tip) ==
    [i \in 1..21 |-> IF (i - 1) \in {finger_indices[f] : f \in Fingers}
                     THEN tip ELSE wrist]

\* A hand whose landmark list is cut short after n landmarks
CutHand(wrist, tip, n) == SubSeq(Hand(wrist, tip), 1, n)

\* Fingertips 0, 15 and 45 below a wrist at y = 100
WholeHands == {Hand(100, t) : t \in {100, 115, 145}}

\* No landmark at all; the landmarks up to the index fingertip only
MalformedHands == {CutHand(100, 145, 0), CutHand(100, 145, 9)}

\* Frames of the object harness: no hand; one hand; two whole hands at
\* the same fingertip height; a malformed hand before or after a whole one
FrameInputs ==
    {<<>>}
    \cup {<<h>> : h \in WholeHands \cup MalformedHands}
    \cup {<<h, h>> : h \in WholeHands}
    \cup {<<m, Hand(100, 145)>> : m \in MalformedHands}
    \cup {<<Hand(100, 145), m>> : m \in MalformedHands}

\* Frames of main()'s loop: two hands striking together, fingertips at
\* the wrist's height or 90 below it
LoopInputs == {<<Hand(100, t), Hand(100, t)>> : t \in {100, 190}}

\* Two hands with the fingertips 0, 5, 20, 28 or 35 below the wrist: the
\* averages of the differences meet every threshold of the table exactly
FineInputs == {<<Hand(100, t), Hand(100, t)>> : t \in {100, 105, 120, 128, 135}}

\* The same with fingertips 90 above the wrist as well
RollInputs == {<<Hand(100, t), Hand(100, t)>> : t \in {10, 100, 190}}

----------------------------------------------------------------------------
\* Construction

InitObject(missing) ==
    LET built == update_mode_parameters(
                    [current_mode |-> "Training",
                     skill_level |-> 1,
                     last_hand_trigger_time |-> [s \in Sides |-> 0],
                     hand_cooldown |-> initial_hand_cooldown,
                     down_threshold |-> "unset",
                     up_threshold |-> "unset",
                     finger_sounds |->
                        [k \in Keys |->
                            FingerSound(catalog_skill_level[k], k \notin missing)]])
    IN /\ current_mode = built.current_mode
       /\ skill_level = built.skill_level
       /\ last_hand_trigger_time = built.last_hand_trigger_time
       /\ hand_cooldown = built.hand_cooldown
       /\ down_threshold = built.down_threshold
       /\ up_threshold = built.up_threshold
       /\ finger_sounds = built.finger_sounds
       /\ clock = StartTime
       /\ raised = FALSE
       /\ played = <<>>
       /\ frames = 0
       /\ fire_times = [k \in Keys |-> <<>>]
       /\ edge_log = [k \in Keys |-> <<>>]
       /\ run_fires = [k \in Keys |-> 0]
       /\ samples = [k \in Keys |-> <<>>]
       /\ last_profile = "Training"
       /\ mode_set_at = 0
       /\ config_ops = 0

\* A constructed object, its operations callable in any order
Init ==
    /\ \E missing \in MissingChoices : InitObject(missing)
    /\ pc = "api"

\* A constructed object on which the skill level is set between frames
InitGate ==
    /\ \E missing \in MissingChoices : InitObject(missing)
    /\ pc = "gate"

\* main() after drumkit = VirtualDrumkit()
InitMain ==
    /\ \E missing \in MissingChoices : InitObject(missing)
    /\ pc = "mode"

----------------------------------------------------------------------------
\* Operations

\* The sidebar's steps run once each, in order, before the loop; on the
\* object they may be called at any time, MaxConfigOps times in all
\* (MaxGateOps times in the skill-level harness).
ConfigStep(at, next) ==
    /\ ~raised
    /\ \/ pc = at /\ pc' = next
       \/ pc = "api" /\ config_ops < MaxConfigOps /\ pc' = pc
       \/ pc = "gate" /\ config_ops < MaxGateOps /\ pc' = pc
    /\ config_ops' = config_ops + 1

\* Mutant: the mode is assigned and update_mode_parameters is not called
SetMode_without_update(mode) ==
    /\ ConfigStep("mode", "skill")
    /\ current_mode' = mode
    /\ last_profile' = IF mode \in DOMAIN mode_parameters THEN mode ELSE last_profile
    /\ mode_set_at' = frames
    /\ UNCHANGED <<skill_level, last_hand_trigger_time, finger_sounds, clock,
                   raised, played, frames, fire_times, edge_log, run_fires, samples,
                   down_threshold, up_threshold, hand_cooldown>>

\* drumkit.current_mode = Mode(mode); drumkit.update_mode_parameters()
SetMode(mode) ==
    /\ ConfigStep("mode", "skill")
    /\ LET self == update_mode_parameters([Self EXCEPT !.current_mode = mode])
       IN /\ current_mode' = self.current_mode
          /\ down_threshold' = self.down_threshold
          /\ up_threshold' = self.up_threshold
          /\ hand_cooldown' = self.hand_cooldown
    /\ last_profile' = IF mode \in DOMAIN mode_parameters THEN mode ELSE last_profile
    /\ mode_set_at' = frames
    /\ UNCHANGED <<skill_level, last_hand_trigger_time, finger_sounds, clock,
                   raised, played, frames, fire_times, edge_log, run_fires, samples>>

\* if skill_level != drumkit.skill_level: drumkit.skill_level = skill_level
SetSkillLevel(level) ==
    /\ ConfigStep("skill", "enable")
    /\ skill_level' = IF level # skill_level THEN level ELSE skill_level
    /\ UNCHANGED <<current_mode, last_hand_trigger_time, hand_cooldown,
                   down_threshold, up_threshold, finger_sounds, clock, raised,
                   played, frames, fire_times, edge_log, run_fires, samples,
                   last_profile,
                   mode_set_at>>

\* The checkboxes: every channel within the skill level takes its
\* checkbox's value; checked is the set of keys whose box is checked.
SetEnabled(checked) ==
    /\ ConfigStep("enable", "loop")
    /\ finger_sounds' =
          [k \in Keys |->
              IF finger_sounds[k].skill_level <= skill_level
              THEN [finger_sounds[k] EXCEPT !.is_active = (k \in checked)]
              ELSE finger_sounds[k]]
    /\ UNCHANGED <<current_mode, skill_level, last_hand_trigger_time,
                   hand_cooldown, down_threshold, up_threshold, clock, raised,
                   played, frames, fire_times, edge_log, run_fires, samples,
                   last_profile,
                   mode_set_at>>

\* The boxes as shown (each starts at its channel's is_active) with at
\* most one of CheckboxKeys clicked
CheckboxInputs ==
    LET shown == {k \in Keys : finger_sounds[k].is_active}
    IN {shown} \cup {(shown \ {k}) \cup ({k} \ shown) : k \in CheckboxKeys}

\* What an observer of the positions calls the motion (section 4.1 of
\* the specification): Down when the average of the consecutive
\* differences exceeds the active down-threshold, Up when it is below
\* minus the active up-threshold, in exact arithmetic.  This is the
\* classification of the source except for an average equal to a
\* threshold, where the source's doubles decide.
ObservedDown(positions) ==
    /\ Len(positions) >= 2
    /\ SumSeq(Motions(positions)) > down_threshold * (Len(positions) - 1)

ObservedUp(positions) ==
    /\ Len(positions) >= 2
    /\ SumSeq(Motions(positions)) < (0 - up_threshold) * (Len(positions) - 1)

\* One call of process_frame with current_time = time.time() = clock + dt,
\* on a machine whose doubles round in any of the ways they can
ProcessFrame(hands, dt, max_frames) ==
    /\ ~raised
    /\ pc \in {"api", "gate", "loop"}
    /\ frames < max_frames
    /\ \E current_time \in {clock + dt} :
       \E st \in process_frame_outcomes(Self, hands, current_time) :
       \E fired \in {SeqSet(st.played)} :
          /\ clock' = current_time
          /\ finger_sounds' = st.finger_sounds
          /\ played' = st.played
          /\ raised' = st.raised
          /\ fire_times' =
                [k \in Keys |->
                    IF k \in fired THEN Append(fire_times[k], current_time)
                    ELSE fire_times[k]]
          /\ edge_log' =
                [k \in Keys |->
                    IF /\ ~finger_sounds[k].is_moving_down
                       /\ st.finger_sounds[k].is_moving_down
                    THEN Append(edge_log[k],
                                [time |-> current_time,
                                 fired |-> k \in fired,
                                 sound |-> finger_sounds[k].sound,
                                 is_active |-> finger_sounds[k].is_active,
                                 ready |-> current_time
                                              - finger_sounds[k].last_trigger_time
                                           >= cooldown])
                    ELSE edge_log[k]]
          /\ samples' =
                [k \in Keys |-> samples[k] \o PushedTo(k, st.pushed)]
          /\ run_fires' =
                [k \in Keys |->
                    (IF ClassifiedUp(k, st.pushed) THEN 0 ELSE run_fires[k])
                    + (IF k \in fired THEN 1 ELSE 0)]
    /\ frames' = frames + 1
    /\ UNCHANGED <<current_mode, skill_level, last_hand_trigger_time,
                   hand_cooldown, down_threshold, up_threshold, pc,
                   last_profile, mode_set_at, config_ops>>

\* The object's operations in any order
Next ==
    \/ \E mode \in Mode : pc = "api" /\ SetMode(mode)
    \/ \E level \in SkillLevels : pc = "api" /\ SetSkillLevel(level)
    \/ \E checked \in CheckboxInputs : pc = "api" /\ SetEnabled(checked)
    \/ \E hands \in FrameInputs, dt \in HarnessDts :
          pc = "api" /\ ProcessFrame(hands, dt, MaxFrames)

Spec == Init /\ [][Next]_vars

\* main(): the sidebar once, then the frame loop
NextMain ==
    \/ \E mode \in Mode : pc = "mode" /\ SetMode(mode)
    \/ \E level \in SkillLevels : pc = "skill" /\ SetSkillLevel(level)
    \/ \E checked \in CheckboxInputs : pc = "enable" /\ SetEnabled(checked)
    \/ \E hands \in LoopInputs, dt \in FrameDts :
          pc = "loop" /\ ProcessFrame(hands, dt, MaxLoopFrames)

SpecMain == InitMain /\ [][NextMain]_vars

\* main() on its first run, when every widget returns its default (the
\* first mode, the current skill level, the boxes as shown), then the
\* frame loop on hands that strike and lift
NextFirstRun ==
    \/ pc = "mode" /\ SetMode("Training")
    \/ pc = "skill" /\ SetSkillLevel(skill_level)
    \/ pc = "enable" /\ SetEnabled({k \in Keys : finger_sounds[k].is_active})
    \/ \E hands \in RollInputs, dt \in FrameDts :
          pc = "loop" /\ ProcessFrame(hands, dt, MaxFirstRunFrames)

SpecFirstRun == InitMain /\ [][NextFirstRun]_vars

\* main() with any choice in the sidebar, then the frame loop on hands
\* that strike and lift
NextSession ==
    \/ \E mode \in Mode : pc = "mode" /\ SetMode(mode)
    \/ \E level \in SkillLevels : pc = "skill" /\ SetSkillLevel(level)
    \/ \E checked \in CheckboxInputs : pc = "enable" /\ SetEnabled(checked)
    \/ \E hands \in RollInputs, dt \in FrameDts :
          pc = "loop" /\ ProcessFrame(hands, dt, MaxSessionFrames)

SpecSession == InitMain /\ [][NextSession]_vars

\* main() with any mode and the other widgets at their defaults, then the
\* frame loop on hands whose fingertips move in small steps
NextFine ==
    \/ \E mode \in Mode : pc = "mode" /\ SetMode(mode)
    \/ pc = "skill" /\ SetSkillLevel(skill_level)
    \/ pc = "enable" /\ SetEnabled({k \in Keys : finger_sounds[k].is_active})
    \/ \E hands \in FineInputs, dt \in HarnessDts :
          pc = "loop" /\ ProcessFrame(hands, dt, MaxFineFrames)

SpecFine == InitMain /\ [][NextFine]_vars

\* The skill-level harness: drumkit.skill_level assigned between frames
\* of two hands that strike and lift
NextGate ==
    \/ \E level \in SkillLevels : pc = "gate" /\ SetSkillLevel(level)
    \/ \E hands \in RollInputs, dt \in HarnessDts :
          pc = "gate" /\ ProcessFrame(hands, dt, MaxGateFrames)

SpecGate == InitGate /\ [][NextGate]_vars

----------------------------------------------------------------------------
\* Claims

PlayedKeys == SeqSet(played)

Latched(k) == finger_sounds[k].is_moving_down

\* C1 (edge latch): in any run of a channel's frames with no frame
\* classified Up, that is, from the start or from its last Up frame on,
\* the channel fires at most once.  The latch is set in the frame of the
\* Down classification, so this bounds the firings from the moment the
\* channel is Latched until an Up is observed, however long the Down or
\* Neutral frames go on.
EdgeLatch == \A k \in Keys : run_fires[k] <= 1

\* A channel that can fire, latched by a firing, whose frames went on
\* classifying Down past the end of its cooldown and did not fire again
EdgeLatchWitness ==
    \E k \in Keys :
        /\ finger_sounds[k].sound /\ finger_sounds[k].is_active
        /\ Latched(k)
        /\ Len(fire_times[k]) = 1
        /\ run_fires[k] = 1
        /\ clock - fire_times[k][1] >= cooldown
        /\ Len(finger_sounds[k].last_positions) = history_size
        /\ ObservedDown(finger_sounds[k].last_positions)
        /\ ObservedDown(SubSeq(finger_sounds[k].last_positions, 1, 3))

\* C2 (cooldown spacing): the clock never runs backwards here, and any
\* two firings of a channel are at least its cooldown apart; of two Down
\* edges of a channel less than the cooldown apart, at most one fired.
CooldownSpacing ==
    \A k \in Keys :
        /\ \A i, j \in 1..Len(fire_times[k]) :
              i < j => fire_times[k][j] - fire_times[k][i] >= finger_sounds[k].cooldown
        /\ \A i, j \in 1..Len(edge_log[k]) :
              (i < j /\ edge_log[k][j].time - edge_log[k][i].time
                          < finger_sounds[k].cooldown)
              => ~(edge_log[k][i].fired /\ edge_log[k][j].fired)

\* A channel whose first Down edge fired, whose second, less than the
\* cooldown later, did not, and whose third fired
CooldownSpacingWitness ==
    \E k \in Keys :
        /\ Len(edge_log[k]) = 3
        /\ edge_log[k][1].fired
        /\ ~edge_log[k][2].fired
        /\ edge_log[k][2].sound /\ edge_log[k][2].is_active
        /\ edge_log[k][2].time - edge_log[k][1].time < cooldown
        /\ edge_log[k][3].fired
        /\ Len(fire_times[k]) = 2

\* At the edge: the channel was enabled and had its sound (its skill
\* requirement is within the level, or the edge would not have happened)
CanSound(e) == e.sound /\ e.is_active

\* C3 as stated: any two Down edges of a channel that can sound, at
\* least the cooldown apart, have both fired.
RefireAnyTwoEdges ==
    \A k \in Keys :
        \A i, j \in 1..Len(edge_log[k]) :
            (/\ i < j
             /\ CanSound(edge_log[k][i]) /\ CanSound(edge_log[k][j])
             /\ edge_log[k][j].time - edge_log[k][i].time >= cooldown)
            => (edge_log[k][i].fired /\ edge_log[k][j].fired)

\* C3 amended: of two consecutive Down edges of a channel that can
\* sound, more than the cooldown apart, the second fires whenever the
\* first did; and the first Down edge of a channel always fires.  (Of
\* two edges exactly one cooldown apart, the first of which fired, the
\* second fires or not as the subtraction of the doubles rounds.)
RefireAfterCooldown ==
    \A k \in Keys :
        /\ (Len(edge_log[k]) >= 1 /\ CanSound(edge_log[k][1]))
              => edge_log[k][1].fired
        /\ \A i \in 1..(Len(edge_log[k]) - 1) :
              (/\ CanSound(edge_log[k][i]) /\ CanSound(edge_log[k][i + 1])
               /\ edge_log[k][i].fired
               /\ edge_log[k][i + 1].time - edge_log[k][i].time > cooldown)
              => edge_log[k][i + 1].fired

\* Two consecutive edges 0.20 s apart, both fired
RefireAfterCooldownWitness ==
    \E k \in Keys :
        /\ Len(edge_log[k]) >= 2
        /\ edge_log[k][1].fired /\ edge_log[k][2].fired
        /\ edge_log[k][2].time - edge_log[k][1].time = 20

\* The step is a call of process_frame
FrameStep == frames' = frames + 1

\* The channel's sound is played in this step
FiresInStep(k) == FrameStep /\ k \in SeqSet(played')

\* Neither a play nor a new last-fire timestamp for the channel
SilentInStep(k) ==
    /\ ~FiresInStep(k)
    /\ fire_times'[k] = fire_times[k]
    /\ finger_sounds'[k].last_trigger_time = finger_sounds[k].last_trigger_time

\* The channels whose skill requirement is 1
LevelOneKeys == {<<"RIGHT", "THUMB">>, <<"RIGHT", "INDEX">>, <<"RIGHT", "MIDDLE">>}

\* C4 (skill gate): in every step taken while a channel's skill
\* requirement exceeds the skill level the channel is silent, and a frame
\* processed at skill level 1 plays nothing but RIGHT_THUMB, RIGHT_INDEX
\* and RIGHT_MIDDLE.
SkillGate ==
    [][/\ \A k \in Keys :
            finger_sounds[k].skill_level > skill_level => SilentInStep(k)
       /\ (FrameStep /\ skill_level = 1)
            => SeqSet(played') \subseteq LevelOneKeys]_vars

\* Two frames at skill level 1 with both hands making the same strike:
\* the right index fires, and no LEFT channel has fired or even taken a
\* sample
SkillGateWitness ==
    /\ skill_level = 1 /\ config_ops = 0 /\ frames = 2
    /\ <<"RIGHT", "INDEX">> \in PlayedKeys
    /\ \A f \in Fingers :
          /\ fire_times[<<"LEFT", f>>] = <<>>
          /\ finger_sounds[<<"LEFT", f>>].last_positions = <<>>
          /\ finger_sounds[<<"LEFT", f>>].last_trigger_time = 0

\* C5 (disabled channels are silent): in every step taken while a
\* channel's enabled flag is false the channel is silent.
DisabledSilent ==
    [][\A k \in Keys : ~finger_sounds[k].is_active => SilentInStep(k)]_vars

\* A disabled channel with its sound loaded went from Armed to Latched
\* outside its cooldown window, within the skill gate, and did not fire
DisabledSilentWitness ==
    \E k \in Keys :
        /\ ~finger_sounds[k].is_active
        /\ Len(edge_log[k]) = 1
        /\ ~edge_log[k][1].is_active
        /\ edge_log[k][1].sound
        /\ edge_log[k][1].ready
        /\ ~edge_log[k][1].fired
        /\ edge_log[k][1].time = clock
        /\ finger_sounds[k].last_trigger_time = 0
        /\ \E k2 \in PlayedKeys : k2[1] = k[1]

\* C6 (Custom keeps the previous profile): the three active parameters
\* are always those of the most recently selected mode that has a profile
\* (Training if none was selected), which is the current mode unless the
\* current mode is Custom.
CustomRetainsProfile ==
    /\ down_threshold = mode_parameters[last_profile].down_threshold
    /\ up_threshold = mode_parameters[last_profile].up_threshold
    /\ hand_cooldown = mode_parameters[last_profile].hand_cooldown
    /\ current_mode # "Custom" => last_profile = current_mode

\* Custom selected after Expert: Expert's values are in effect
CustomRetainsProfileWitness ==
    /\ current_mode = "Custom"
    /\ last_profile = "Expert"
    /\ config_ops = 2
    /\ down_threshold = 8 /\ up_threshold = 5 /\ hand_cooldown = 5

\* sum(motions) / len(motions) is 0.0015
AverageIs15(positions) ==
    /\ Len(positions) >= 2
    /\ SumSeq(Motions(positions)) = 15 * (Len(positions) - 1)

\* The channel took a sample in this step (a push that leaves the history
\* as it was leaves it flat, which is neither Down nor Up)
SampledInStep(k) ==
    /\ FrameStep
    /\ finger_sounds'[k].last_positions # finger_sounds[k].last_positions

\* The channel was Armed, enabled, loaded and past its cooldown window
\* when the frame came
ReadyToFire(k) ==
    /\ ~finger_sounds[k].is_moving_down
    /\ finger_sounds[k].sound
    /\ finger_sounds[k].is_active
    /\ clock' - finger_sounds[k].last_trigger_time > finger_sounds[k].cooldown

\* C7 (a mode switch acts on the next classification): a frame classifies
\* with the table values of the mode selected last (for a mode that has a
\* profile): an Armed channel is Latched after its sample when the
\* average exceeds that mode's down-threshold and not when it is below
\* it.  A history averaging 0.0015 latches, and fires a ready channel,
\* under Expert; under Training it neither latches nor fires.
ModeSwitchImmediate ==
    [][\A k \in Keys :
          SampledInStep(k) =>
            LET positions == finger_sounds'[k].last_positions
                armed == ~finger_sounds[k].is_moving_down
                threshold == mode_parameters[current_mode].down_threshold
                                * (Len(positions) - 1)
            IN /\ (current_mode # "Custom" /\ armed) =>
                    /\ SumSeq(Motions(positions)) > threshold
                          => finger_sounds'[k].is_moving_down
                    /\ SumSeq(Motions(positions)) < threshold
                          => ~finger_sounds'[k].is_moving_down
               /\ (AverageIs15(positions) /\ current_mode = "Expert") =>
                    /\ finger_sounds'[k].is_moving_down
                    /\ ReadyToFire(k) => FiresInStep(k)
               /\ (AverageIs15(positions) /\ current_mode = "Training") =>
                    /\ finger_sounds'[k].is_moving_down
                          = finger_sounds[k].is_moving_down
                    /\ ~FiresInStep(k)]_vars

\* Expert selected between the first frame and the second: the second
\* sample makes the average 0.0015 and the channel fires
ModeSwitchImmediateWitness ==
    /\ current_mode = "Expert" /\ mode_set_at = 1 /\ config_ops = 1
    /\ frames = 2
    /\ \E k \in PlayedKeys :
          /\ AverageIs15(finger_sounds[k].last_positions)
          /\ Len(finger_sounds[k].last_positions) = 2

\* The object with other values in its two hand-cooldown fields
WithHandCooldown(self, hc, t) ==
    [self EXCEPT !.hand_cooldown = hc,
                 !.last_hand_trigger_time = [s \in Sides |-> t]]

\* What a mode selection makes of everything but the two hand-cooldown
\* fields
ModeOutcome(self, mode) ==
    LET after == update_mode_parameters([self EXCEPT !.current_mode = mode])
    IN <<after.current_mode, after.skill_level, after.down_threshold,
         after.up_threshold, after.finger_sounds>>

\* The object harness can process another frame
FrameAhead == ~raised /\ frames < MaxFrames

\* C8 (the hand-level cooldown is unobservable): in every reachable
\* state, every frame and every mode selection has the same outcome (the
\* sounds played and their order, whether the frame raised, every
\* channel's history, latch and last-fire time, the thresholds) whatever
\* values hand_cooldown and last_hand_trigger_time hold.  Two runs that
\* differ only in these two fields therefore stay equal in everything
\* else, step by step.
HandCooldownUnobservable ==
    \A hc \in {5, 20}, t \in {0, clock} :
        /\ \A hands \in FrameInputs, dt \in HarnessDts :
              FrameAhead =>
              \A rounding \in FrameRoundings(Self, hands, clock + dt) :
                process_frame(Rounded(WithHandCooldown(Self, hc, t), rounding),
                              hands, clock + dt)
                  = process_frame(Rounded(Self, rounding), hands, clock + dt)
        /\ \A mode \in Mode :
              ModeOutcome(WithHandCooldown(Self, hc, t), mode)
                = ModeOutcome(Self, mode)

\* Under Training (hand cooldown 0.2 s) three channels of the right hand
\* fired in one frame
HandCooldownUnobservableWitness ==
    /\ hand_cooldown = 20
    /\ \A s \in Sides : last_hand_trigger_time[s] = 0
    /\ {<<"RIGHT", "THUMB">>, <<"RIGHT", "INDEX">>, <<"RIGHT", "MIDDLE">>}
          \subseteq PlayedKeys
    /\ \A k \in PlayedKeys : fire_times[k] = <<clock>>

\* The object with every sound loaded
AllLoaded(self) ==
    [self EXCEPT !.finger_sounds =
        [k \in Keys |-> [self.finger_sounds[k] EXCEPT !.sound = TRUE]]]

\* C9 (a missing sound is isolated to its channel): a channel without a
\* sound has never fired; and in every reachable state, every frame
\* gives every channel the history and latch it would get with all
\* sounds loaded, raises exactly when it would, and plays, in the same
\* order, exactly the sounds it would play that are loaded, leaving the
\* channels that have their sound in the very state they would be in.
MissingSoundIsolated ==
    /\ \A k \in Keys :
          ~finger_sounds[k].sound =>
              fire_times[k] = <<>> /\ finger_sounds[k].last_trigger_time = 0
    /\ \A hands \in FrameInputs, dt \in HarnessDts :
          FrameAhead =>
          \A rounding \in FrameRoundings(Self, hands, clock + dt) :
          LET got == process_frame(Rounded(Self, rounding), hands, clock + dt)
              ref == process_frame(Rounded(AllLoaded(Self), rounding),
                                   hands, clock + dt)
              HasSound(k) == finger_sounds[k].sound
          IN /\ got.raised = ref.raised
             /\ got.played = SelectSeq(ref.played, HasSound)
             /\ \A k \in Keys :
                   /\ got.finger_sounds[k].last_positions
                         = ref.finger_sounds[k].last_positions
                   /\ got.finger_sounds[k].is_moving_down
                         = ref.finger_sounds[k].is_moving_down
                   /\ HasSound(k) => got.finger_sounds[k] = ref.finger_sounds[k]

\* The right index has no sound: a strike of the right hand latches it
\* without a firing, and the thumb before it and the middle finger after
\* it fire
MissingSoundIsolatedWitness ==
    /\ ~finger_sounds[<<"RIGHT", "INDEX">>].sound
    /\ finger_sounds[<<"RIGHT", "INDEX">>].is_moving_down
    /\ Len(finger_sounds[<<"RIGHT", "INDEX">>].last_positions) = 2
    /\ fire_times[<<"RIGHT", "INDEX">>] = <<>>
    /\ played = << <<"RIGHT", "THUMB">>, <<"RIGHT", "MIDDLE">> >>

\* A hand with fewer than the 21 landmarks
Malformed(hand) == Len(hand) < 21

\* The frame with each malformed hand replaced by a whole one
Repaired(hands) ==
    [i \in 1..Len(hands) |->
        IF Malformed(hands[i]) THEN Hand(100, 145) ELSE hands[i]]

\* The step is process_frame on this frame, the doubles rounding as given
StepProcesses(hands, rounding) ==
    /\ FrameStep
    /\ LET got == process_frame(Rounded(Self, rounding), hands, clock')
       IN /\ got.finger_sounds = finger_sounds'
          /\ got.played = played'
          /\ got.raised = raised'

\* C10 as stated (a malformed hand degrades that hand only): a frame
\* with a malformed hand does not raise, leaves the channels of that hand
\* as they were and leaves the channels of the other hand as the frame
\* with a whole hand in its place would.
MalformedHandSkipped ==
    [][\A hands \in FrameInputs :
       \A rounding \in FrameRoundings(Self, Repaired(hands), clock') :
          ((\E i \in 1..Len(hands) : Malformed(hands[i]))
              /\ StepProcesses(hands, rounding)) =>
            LET ref == process_frame(Rounded(Self, rounding), Repaired(hands),
                                     clock')
            IN /\ ~raised'
               /\ \A i \in 1..Len(hands), f \in Fingers :
                     LET k == finger_key(HandSide(i - 1), f)
                     IN finger_sounds'[k]
                          = IF Malformed(hands[i]) THEN finger_sounds[k]
                            ELSE ref.finger_sounds[k]]_vars

\* C11 (the latch is set whether or not the sound plays): whenever a
\* frame gives a sample to an Armed channel and the history then
\* classifies as Down, the channel is Latched after the frame, be it
\* that it fired, that it was inside its cooldown, that it is disabled or
\* that it has no sound.  (A channel whose skill requirement exceeds the
\* skill level is given no sample at all, so that case of the claim never
\* arises.)
LatchSetOnDown ==
    [][\A k \in Keys :
          (/\ SampledInStep(k)
           /\ ~finger_sounds[k].is_moving_down
           /\ ObservedDown(finger_sounds'[k].last_positions))
          => finger_sounds'[k].is_moving_down]_vars

\* In one frame three Armed channels of the right hand classify as Down
\* and none plays: one inside its cooldown, one disabled, one without a
\* sound; all three are Latched
LatchSetOnDownWitness ==
    \E k1, k2, k3 \in Keys :
        /\ Len(edge_log[k1]) = 2
        /\ edge_log[k1][1].fired
        /\ CanSound(edge_log[k1][2]) /\ ~edge_log[k1][2].ready
        /\ ~edge_log[k1][2].fired
        /\ edge_log[k1][2].time = clock
        /\ Len(edge_log[k2]) = 2
        /\ edge_log[k2][2].sound /\ ~edge_log[k2][2].is_active
        /\ ~edge_log[k2][2].fired
        /\ edge_log[k2][2].time = clock
        /\ Len(edge_log[k3]) = 2
        /\ ~edge_log[k3][2].sound /\ edge_log[k3][2].is_active
        /\ ~edge_log[k3][2].fired
        /\ edge_log[k3][2].time = clock
        /\ Latched(k1) /\ Latched(k2) /\ Latched(k3)
        /\ fire_times[k2] = <<>> /\ fire_times[k3] = <<>>

\* C12 (release re-arms without firing): a frame that gives a Latched
\* channel a sample whose history classifies as Up leaves the channel
\* Armed and silent (no play, last-fire time unchanged); and a channel
\* is silent in every frame that gives it a sample classifying as Up or
\* as Neutral.
ReleaseRearms ==
    [][\A k \in Keys :
          SampledInStep(k) =>
            LET positions == finger_sounds'[k].last_positions
            IN /\ (finger_sounds[k].is_moving_down /\ ObservedUp(positions))
                    => (~finger_sounds'[k].is_moving_down /\ SilentInStep(k))
               /\ ~ObservedDown(positions) => SilentInStep(k)]_vars

\* A channel that fired on its Down edge was released by the Up frame
\* just processed, ready to fire by its cooldown, and stayed silent
ReleaseRearmsWitness ==
    \E k \in Keys :
        /\ Len(edge_log[k]) = 1 /\ edge_log[k][1].fired
        /\ ~Latched(k)
        /\ ObservedUp(finger_sounds[k].last_positions)
        /\ Len(fire_times[k]) = 1
        /\ finger_sounds[k].last_trigger_time = fire_times[k][1]
        /\ clock - fire_times[k][1] >= cooldown

\* C13 (no other latch transitions): in every step, a channel's latch
\* goes from Latched to Armed only in a frame that gives it a sample
\* classifying as Up, and from Armed to Latched only in a frame that
\* gives it a sample classifying as Down.  So a Latched channel stays
\* Latched on Down and on Neutral, and an Armed one stays Armed on Up and
\* on Neutral.
OnlyTwoLatchTransitions ==
    [][\A k \in Keys :
          LET positions == finger_sounds'[k].last_positions
          IN /\ (finger_sounds[k].is_moving_down
                    /\ ~finger_sounds'[k].is_moving_down)
                  => (SampledInStep(k) /\ ObservedUp(positions))
             /\ (~finger_sounds[k].is_moving_down
                    /\ finger_sounds'[k].is_moving_down)
                  => (SampledInStep(k) /\ ObservedDown(positions))]_vars

\* A channel latched by its one Down edge has since taken a sample that
\* makes its history Neutral, and is still Latched
OnlyTwoLatchTransitionsWitness ==
    \E k \in Keys :
        /\ Latched(k)
        /\ Len(edge_log[k]) = 1
        /\ edge_log[k][1].time < clock
        /\ Len(finger_sounds[k].last_positions) >= 3
        /\ ~ObservedDown(finger_sounds[k].last_positions)
        /\ ~ObservedUp(finger_sounds[k].last_positions)

\* C14 (side effects of a firing): in every step a channel's last-fire
\* time changes exactly when the channel fires in that step, and then it
\* becomes the frame's timestamp, the one that all channels of the frame
\* share; no last-fire time is ever later than the last frame's
\* timestamp (the clock here does not run backwards); and no step
\* changes last_hand_trigger_time.
FiringSideEffects ==
    [][/\ \A k \in Keys :
            /\ (finger_sounds'[k].last_trigger_time
                    # finger_sounds[k].last_trigger_time) <=> FiresInStep(k)
            /\ FiresInStep(k) => finger_sounds'[k].last_trigger_time = clock'
            /\ finger_sounds'[k].last_trigger_time <= clock'
       /\ last_hand_trigger_time' = last_hand_trigger_time]_vars

\* The last frame played two channels of the right hand, both stamped
\* with its timestamp (one of them for the second time), and latched a
\* disabled one, which kept its initial last-fire time; the hands'
\* last-fire times are as constructed
FiringSideEffectsWitness ==
    \E k1, k2, k3 \in Keys :
        /\ k1 # k2 /\ k1[1] = k2[1]
        /\ {k1, k2} \subseteq PlayedKeys
        /\ finger_sounds[k1].last_trigger_time = clock
        /\ finger_sounds[k2].last_trigger_time = clock
        /\ Len(fire_times[k1]) = 2
        /\ ~finger_sounds[k3].is_active /\ Latched(k3)
        /\ edge_log[k3] # <<>>
        /\ edge_log[k3][Len(edge_log[k3])].time = clock
        /\ finger_sounds[k3].last_trigger_time = 0
        /\ \A s \in Sides : last_hand_trigger_time[s] = 0

\* The last n elements of a sequence (all of it when it is shorter)
LastN(s, n) ==
    IF Len(s) <= n THEN s ELSE SubSeq(s, Len(s) - n + 1, Len(s))

\* C15 (bounded FIFO history): every channel's history holds at most 4
\* samples, and they are the most recent min(n, 4) of the n samples that
\* were appended to it, in the order of their arrival.
BoundedFifoHistory ==
    \A k \in Keys :
        /\ Len(finger_sounds[k].last_positions) <= 4
        /\ finger_sounds[k].last_positions = LastN(samples[k], 4)

\* Six samples were appended to a channel; its history is the last four,
\* and the two that were evicted differ from the two that took their
\* places at the front
BoundedFifoHistoryWitness ==
    \E k \in Keys :
        /\ Len(samples[k]) = 6
        /\ finger_sounds[k].last_positions = SubSeq(samples[k], 3, 6)
        /\ samples[k][1] # samples[k][3]
        /\ samples[k][2] # samples[k][4]
        /\ samples[k][6] # samples[k][5]

\* Values of relative_y (1e-4 of the image height) for the histories the
\* classification is evaluated on
SampleValues == {-90, -15, 0, 8, 15, 45, 90}

\* The histories with fewer than 2 samples
ShortHistories == {<<>>} \cup {<<y>> : y \in SampleValues}

\* The object after the mode is selected
InMode(self, mode) ==
    update_mode_parameters([self EXCEPT !.current_mode = mode])

\* C16 (short histories are Neutral): under every mode neither
\* detect_downward_motion nor detect_upward_motion holds of a history
\* with fewer than 2 samples; and the frame that gives a channel its first
\* sample plays nothing on it and leaves its latch and its last-fire time
\* as they were.
ShortHistoryNeutral ==
    [][/\ \A mode \in Mode, positions \in ShortHistories :
          \A rounding \in {Exact, [down |-> ShortHistories,
                                    up |-> ShortHistories,
                                    early |-> TRUE]} :
            LET self == Rounded(InMode(Self, mode), rounding)
            IN /\ ~detect_downward_motion(self, positions)
               /\ ~detect_upward_motion(self, positions)
       /\ \A k \in Keys :
            (FrameStep /\ samples[k] = <<>> /\ Len(samples'[k]) = 1)
            => /\ SilentInStep(k)
               /\ finger_sounds'[k].is_moving_down
                     = finger_sounds[k].is_moving_down]_vars

\* Under Expert, the lowest thresholds, the first frame put the fingertip
\* of three channels 0.0045 below the wrist: one sample each, none
\* Latched, none played
ShortHistoryNeutralWitness ==
    /\ current_mode = "Expert" /\ down_threshold = 8
    /\ frames = 1 /\ ~raised /\ played = <<>>
    /\ \A k \in LevelOneKeys :
          /\ samples[k] = <<45>>
          /\ finger_sounds[k].last_positions = <<45>>
          /\ ~Latched(k)
          /\ finger_sounds[k].last_trigger_time = 0

StrictlyIncreasing(positions) ==
    \A i \in 1..(Len(positions) - 1) : positions[i] < positions[i + 1]

NonIncreasing(positions) ==
    \A i \in 1..(Len(positions) - 1) : positions[i] >= positions[i + 1]

\* The average of the consecutive differences of a history of n samples
\* is (last - first) / (n - 1); this is that average times n - 1
Rise(positions) == positions[Len(positions)] - positions[1]

\* The ways the comparisons of the doubles can come out on one history
HistoryRoundings(positions) ==
    [down : SUBSET {positions}, up : SUBSET {positions}, early : {FALSE}]

\* avg_motion, the average of the consecutive differences as the code
\* computes it, exceeds the threshold: as the exact average does, and
\* where that equals the threshold as the doubles round
AverageExceeds(positions, threshold, rounds_up) ==
    \/ Rise(positions) > threshold * (Len(positions) - 1)
    \/ /\ Rise(positions) = threshold * (Len(positions) - 1)
       /\ rounds_up

\* avg_motion is below minus the threshold
AverageBelowMinus(positions, threshold, rounds_down) ==
    \/ Rise(positions) < (0 - threshold) * (Len(positions) - 1)
    \/ /\ Rise(positions) = (0 - threshold) * (Len(positions) - 1)
       /\ rounds_down

\* C17 (direction classification): of every history of 2 to 4 samples a
\* channel holds, under every mode and however the doubles round,
\* detect_downward_motion holds exactly when the average of the
\* consecutive differences, as computed, exceeds the mode's
\* down-threshold and detect_upward_motion exactly when it is below
\* minus the mode's up-threshold; a strictly increasing history whose
\* average exceeds the down-threshold is Down, a flat or non-increasing
\* one is never Down, and none is both Down and Up.
DirectionClassification ==
    \A k \in Keys, mode \in Mode :
        LET positions == finger_sounds[k].last_positions
            n == Len(positions)
        IN n >= 2 =>
            \A rounding \in HistoryRoundings(positions) :
                LET self == Rounded(InMode(Self, mode), rounding)
                    down == detect_downward_motion(self, positions)
                    up == detect_upward_motion(self, positions)
                    exceeds == AverageExceeds(positions, self.down_threshold,
                                              positions \in rounding.down)
                    below == AverageBelowMinus(positions, self.up_threshold,
                                               positions \in rounding.up)
                IN /\ n <= 4
                   /\ down <=> exceeds
                   /\ up <=> below
                   /\ (StrictlyIncreasing(positions) /\ exceeds) => down
                   /\ NonIncreasing(positions) => ~down
                   /\ ~(down /\ up)
                   /\ ~down /\ ~up
                        => /\ Rise(positions) <= self.down_threshold * (n - 1)
                           /\ Rise(positions) >= (0 - self.up_threshold) * (n - 1)

\* Under Practice a channel holds the strictly increasing history
\* 0, 0.0005, 0.0020, 0.0035, whose average difference 0.00117 is
\* below the down-threshold 0.0015 and above Performance's 0.001: not
\* Down, however the doubles round, and Down under Performance
DirectionClassificationWitness ==
    \E k \in Keys :
        /\ current_mode = "Practice"
        /\ finger_sounds[k].last_positions = <<0, 5, 20, 35>>
        /\ \A rounding \in HistoryRoundings(finger_sounds[k].last_positions) :
              /\ ~detect_downward_motion(Rounded(Self, rounding),
                                         finger_sounds[k].last_positions)
              /\ ~detect_upward_motion(Rounded(Self, rounding),
                                       finger_sounds[k].last_positions)
              /\ detect_downward_motion(
                    Rounded(InMode(Self, "Performance"), rounding),
                    finger_sounds[k].last_positions)

\* The channel updates of a frame, <<hand_idx, finger_name>>, in the
\* order of the source's two loops
SourceOrder(hands) ==
    [n \in 1..(Len(hands) * Len(FingerOrder)) |->
        <<(n - 1) \div Len(FingerOrder),
          FingerOrder[((n - 1) % Len(FingerOrder)) + 1]>>]

Reverse(seq) == [i \in 1..Len(seq) |-> seq[Len(seq) + 1 - i]]

\* Finger by finger, the hands alternating, the last hand first
Interleaved(hands) ==
    [n \in 1..(Len(hands) * Len(FingerOrder)) |->
        <<Len(hands) - 1 - ((n - 1) % Len(hands)),
          FingerOrder[((n - 1) \div Len(hands)) + 1]>>]

\* The two loops of lines 225-258 run on the channel updates in the
\* order given: the hand's wrist is read (line 227) when an update of the
\* hand is reached, then the loop body runs (lines 230-258); an
\* IndexError of either ends the call, the updates after it are not made
RECURSIVE ProcessInOrder(_, _, _, _, _)
ProcessInOrder(self, st, hands, order, current_time) ==
    IF order = <<>> \/ st.raised
    THEN st
    ELSE LET hand_idx == Head(order)[1]
             landmark == hands[hand_idx + 1]
         IN ProcessInOrder(
                self,
                IF Len(landmark) < 1
                THEN [st EXCEPT !.raised = TRUE]
                ELSE ProcessFinger(self, st, HandSide(hand_idx), landmark,
                                   landmark[1], Head(order)[2], current_time),
                hands, Tail(order), current_time)

\* The state the loops of process_frame start from
FrameStart(self) ==
    [finger_sounds |-> self.finger_sounds,
     played |-> <<>>,
     pushed |-> <<>>,
     raised |-> FALSE]

\* The object with the runtime state of every channel but one replaced:
\* no history, the latch flipped, fired at the given time
OthersReplaced(self, key, time) ==
    [self EXCEPT !.finger_sounds =
        [k \in Keys |->
            IF k = key THEN self.finger_sounds[k]
            ELSE [self.finger_sounds[k] EXCEPT
                    !.last_positions = <<>>,
                    !.is_moving_down = ~@,
                    !.last_trigger_time = time]]]

\* C18 (channel independence): in every reachable state and for every
\* frame, the update of one channel leaves the record of every other
\* channel as it was, and gives the channel the same record and the same
\* play whatever the histories, latches and last-fire times of the other
\* channels are; and the channel updates of the frame run in reverse
\* order, or finger by finger across the hands, end with the same record
\* for every channel and the same sounds played as the source's order
\* (whose outcome is process_frame's).
ChannelIndependence ==
    \A hands \in FrameInputs, dt \in HarnessDts :
        FrameAhead =>
        \A rounding \in FrameRoundings(Self, hands, clock + dt) :
        LET now == clock + dt
            self == Rounded(Self, rounding)
            got == process_frame(self, hands, now)
            inorder == ProcessInOrder(self, FrameStart(self), hands,
                                      SourceOrder(hands), now)
            reversed == ProcessInOrder(self, FrameStart(self), hands,
                                       Reverse(SourceOrder(hands)), now)
            mixed == ProcessInOrder(self, FrameStart(self), hands,
                                    Interleaved(hands), now)
        IN /\ inorder = got
           /\ reversed.finger_sounds = got.finger_sounds
           /\ SeqSet(reversed.played) = SeqSet(got.played)
           /\ Len(reversed.played) = Len(got.played)
           /\ mixed.finger_sounds = got.finger_sounds
           /\ SeqSet(mixed.played) = SeqSet(got.played)
           /\ Len(mixed.played) = Len(got.played)
           /\ \A n \in 1..Len(SourceOrder(hands)) :
                 LET task == SourceOrder(hands)[n]
                     key == finger_key(HandSide(task[1]), task[2])
                     alone == ProcessInOrder(self, FrameStart(self), hands,
                                             <<task>>, now)
                     other == OthersReplaced(self, key, clock)
                     apart == ProcessInOrder(other, FrameStart(other), hands,
                                             <<task>>, now)
                 IN /\ \A k \in Keys \ {key} :
                          alone.finger_sounds[k] = finger_sounds[k]
                    /\ apart.finger_sounds[key] = alone.finger_sounds[key]
                    /\ apart.played = alone.played

\* A channel's history, latch and last-fire time
Runtime(sounds, k) ==
    <<sounds[k].last_positions, sounds[k].is_moving_down,
      sounds[k].last_trigger_time>>

\* C19 (gated channels are frozen): a step that changes the skill level
\* changes no channel's history, latch or last-fire time; a frame leaves
\* the history, latch and last-fire time of every channel whose skill
\* requirement exceeds the skill level as they were, and appends no
\* sample to it.  So the first sample a channel takes after the level is
\* raised again joins the samples it held when it was gated, and a
\* channel that was Latched then is Latched still: it does not fire on a
\* sample that does not classify as Up.
GatedFrozen ==
    [][\A k \in Keys :
          /\ skill_level' # skill_level
                => Runtime(finger_sounds', k) = Runtime(finger_sounds, k)
          /\ (FrameStep /\ finger_sounds[k].skill_level > skill_level)
                => /\ Runtime(finger_sounds', k) = Runtime(finger_sounds, k)
                   /\ samples'[k] = samples[k]
                   /\ SilentInStep(k)
          /\ (FrameStep /\ Len(samples'[k]) = Len(samples[k]) + 1)
                => /\ finger_sounds'[k].last_positions
                        = LastN(Append(finger_sounds[k].last_positions,
                                       samples'[k][Len(samples'[k])]), 4)
                   /\ (finger_sounds[k].is_moving_down
                         /\ ~ObservedUp(finger_sounds'[k].last_positions))
                        => (finger_sounds'[k].is_moving_down
                              /\ SilentInStep(k))]_vars

\* A left-hand channel fired and was Latched at skill level 2 or 3, sat
\* out a frame at a lower level while a right-hand channel took the
\* sample, and with the level raised again took the last frame's sample
\* one cooldown after its firing: the sample joined the two from before
\* the gate, the history classifies as Down, and the channel, still
\* Latched, did not fire
GatedFrozenWitness ==
    \E k \in Keys :
        /\ frames = 4 /\ config_ops = 3
        /\ finger_sounds[k].skill_level > 1
        /\ finger_sounds[k].skill_level <= skill_level
        /\ finger_sounds[k].sound /\ finger_sounds[k].is_active
        /\ Len(samples[k]) = 3
        /\ Len(samples[<<"RIGHT", "INDEX">>]) = 4
        /\ finger_sounds[k].last_positions = samples[k]
        /\ ObservedDown(finger_sounds[k].last_positions)
        /\ Latched(k)
        /\ Len(edge_log[k]) = 1 /\ edge_log[k][1].fired
        /\ Len(fire_times[k]) = 1
        /\ clock - fire_times[k][1] >= cooldown
        /\ k \notin PlayedKeys

\* The frames of the object harness with no hand or one hand
SingleHandFrames == {hands \in FrameInputs : Len(hands) <= 1}

\* C20 (a single hand at skill level 1 is silent): the first detected
\* hand is LEFT and the second RIGHT, and every LEFT channel has a skill
\* requirement of 2 or more; so a frame with at most one detected hand
\* processed at skill level 1 plays nothing and leaves every channel's
\* history, latch and last-fire time as they were, and at any skill
\* level such a frame leaves the RIGHT channels as they were: a RIGHT
\* channel takes a sample only in a frame with two detected hands.
SingleHandSilent ==
    [][/\ HandSide(0) = "LEFT" /\ HandSide(1) = "RIGHT"
       /\ \A f \in Fingers : finger_sounds[<<"LEFT", f>>].skill_level >= 2
       /\ \A hands \in SingleHandFrames :
          \A rounding \in FrameRoundings(Self, hands, clock') :
            StepProcesses(hands, rounding) =>
              /\ \A f \in Fingers :
                    /\ Runtime(finger_sounds', <<"RIGHT", f>>)
                          = Runtime(finger_sounds, <<"RIGHT", f>>)
                    /\ samples'[<<"RIGHT", f>>] = samples[<<"RIGHT", f>>]
                    /\ <<"RIGHT", f>> \notin SeqSet(played')
              /\ skill_level = 1 =>
                    /\ played' = <<>>
                    /\ samples' = samples
                    /\ fire_times' = fire_times
                    /\ \A k \in Keys :
                          Runtime(finger_sounds', k) = Runtime(finger_sounds, k)
       /\ \A f \in Fingers :
            (FrameStep /\ samples'[<<"RIGHT", f>>] # samples[<<"RIGHT", f>>])
              => \E g \in Fingers : samples'[<<"LEFT", g>>] # samples[<<"LEFT", g>>]
                                        \/ finger_sounds[<<"LEFT", g>>].skill_level
                                              > skill_level]_vars

\* At skill level 2 a frame with a single hand has been processed:
\* LEFT_INDEX has taken its sample, and no RIGHT channel has taken a
\* sample, latched or fired, though three of them are unlocked
SingleHandSilentWitness ==
    /\ frames >= 1 /\ skill_level = 2 /\ ~raised
    /\ samples[<<"LEFT", "INDEX">>] # <<>>
    /\ finger_sounds[<<"LEFT", "INDEX">>].last_positions # <<>>
    /\ \A f \in Fingers :
          /\ samples[<<"RIGHT", f>>] = <<>>
          /\ Runtime(finger_sounds, <<"RIGHT", f>>) = <<<<>>, FALSE, 0>>
          /\ fire_times[<<"RIGHT", f>>] = <<>>

====
